---- MODULE Spec2Model ----
(***************************************************************************)
(* A model of load_csv_to_sql.py: the interactive loop run_cli and the     *)
(* loader create_table_from_csv, with the SQLite file as a map from table  *)
(* names to tables.  Python strings are sequences of one-character         *)
(* strings, so that strip, upper, replace and the f-string that builds the *)
(* renamed table are computed, not assumed.                                *)
(*                                                                         *)
(* The DataFrame cells carry the run-time type pandas hands back: an       *)
(* integer column read by read_csv holds numpy.int64 values, a float       *)
(* column numpy.float64 values (a subclass of Python's float), an object   *)
(* column Python str values, and a missing cell is NaN.                    *)
(***************************************************************************)
EXTENDS Integers, Sequences, FiniteSets, TLC

\* The model explores stores of at most this many tables.
MaxTables == 4

VARIABLES
    pc,                  \* where the program is: a run_cli prompt or a line of create_table_from_csv
    store,               \* my_database.db: table name -> [columns, rows]
    csv_file,            \* what csv_path holds: "ParseError" or the frame read_csv returns
    df,                  \* the local df ("unbound" before line 69)
    conn,                \* the local conn: "unbound", "open" or "closed"
    table_name,          \* the local table_name
    original_table_name, \* the local original_table_name
    choice,              \* the local choice ("unbound" until the prompt is answered)
    columns,             \* the local columns: the column definitions of CREATE TABLE
    outcome,             \* how the last call ended, by the message it printed
    logged,              \* whether the call wrote to error_log.txt
    e,                   \* the exception the except clause caught ("none" when none was raised)
    store0               \* the store when the call began (history variable)

vars == <<pc, store, csv_file, df, conn, table_name, original_table_name,
          choice, columns, outcome, logged, e, store0>>

-----------------------------------------------------------------------------
(* Python string operations *)

IsSpace(c) == c = " "

RECURSIVE LStrip(_)
LStrip(s) == IF s # <<>> /\ IsSpace(Head(s)) THEN LStrip(Tail(s)) ELSE s

RECURSIVE RStrip(_)
RStrip(s) ==
    IF s # <<>> /\ IsSpace(s[Len(s)]) THEN RStrip(SubSeq(s, 1, Len(s) - 1)) ELSE s

\* str.strip()
Strip(s) == RStrip(LStrip(s))

\* str.replace(old, new) for one-character old and new
Replace(s, old, new) == [i \in 1..Len(s) |-> IF s[i] = old THEN new ELSE s[i]]

UpperChar(c) ==
    CASE c = "o" -> "O"
      [] c = "r" -> "R"
      [] c = "s" -> "S"
      [] c = "x" -> "X"
      [] OTHER -> c

\* str.upper()
Upper(s) == [i \in 1..Len(s) |-> UpperChar(s[i])]

Digits == <<"0", "1", "2", "3", "4", "5", "6", "7", "8", "9">>

\* str(n) of a natural number, as an f-string renders it
RECURSIVE IntToStr(_)
IntToStr(n) ==
    IF n < 10 THEN <<Digits[n + 1]>>
    ELSE IntToStr(n \div 10) \o <<Digits[(n % 10) + 1]>>

\* f"{table_name}_{suffix}"
Suffixed(name, suffix) == name \o <<"_">> \o IntToStr(suffix)

-----------------------------------------------------------------------------
(* pandas: the frame read_csv returns and the values it hands back *)

NaN == [kind |-> "nan", v |-> 0]               \* a missing cell
NpInt(n) == [kind |-> "numpy.int64", v |-> n]  \* a cell of an int64 column
NpFloat(tenths) == [kind |-> "numpy.float64", v |-> tenths]  \* a cell of a float64 column
PyStr(n) == [kind |-> "str", v |-> n]          \* a cell of an object column

\* The stand-in for a local that is not bound yet.
NoFrame == [columns |-> <<>>, rows |-> <<>>]
Unbound == <<"<unbound>">>

\* id,full name, score / 1,Alice,9.5 / 2,, : int64, object and float64 columns
Students ==
    [columns |-> << <<"i", "d">>, <<"f", " ", "n">>, <<" ", "s">> >>,
     rows |-> << <<NpInt(1), PyStr(1), NpFloat(95)>>, <<NpInt(2), NaN, NaN>> >>]

\* id,score  / 7,8.5 : an int64 and a float64 column, no object column
Scores ==
    [columns |-> << <<"i", "d">>, <<"s", " ">> >>,
     rows |-> << <<NpInt(7), NpFloat(85)>> >>]

\* a b,a_b / x,y : two headers with the same normalized name
Clash ==
    [columns |-> << <<"a", " ", "b">>, <<"a", "_", "b">> >>,
     rows |-> << <<PyStr(2), PyStr(3)>> >>]

\* id : a header line and no data line
HeaderOnly == [columns |-> << <<"i", "d">> >>, rows |-> <<>>]

Frames == {Students, Scores, Clash, HeaderOnly}

\* What csv_path can name: a file read_csv parses into a frame, or one it rejects
\* (a missing file, an empty file, malformed lines).
CsvFiles ==
    {[parses |-> TRUE, frame |-> f] : f \in Frames}
        \cup {[parses |-> FALSE, frame |-> NoFrame]}

\* The dtype read_csv gives column j: int64 when every cell is an integer, float64
\* when every cell is a float or missing, object otherwise.
ColumnDtype(frame, j) ==
    IF \A i \in 1..Len(frame.rows) : frame.rows[i][j].kind = "numpy.int64"
    THEN "int64"
    ELSE IF \A i \in 1..Len(frame.rows) :
                frame.rows[i][j].kind \in {"numpy.float64", "nan"}
         THEN "float64"
         ELSE "object"

\* df.iloc[0]: the first row as one Series.  A frame of int64 and float64 columns
\* only gives a float64 Series (the integers become floats); any other mix gives an
\* object Series that keeps each value as the column holds it.
SampleRow(frame) ==
    LET n == Len(frame.columns)
        dtypes == {ColumnDtype(frame, j) : j \in 1..n}
        first == frame.rows[1]
    IN  [j \in 1..n |->
            IF dtypes = {"int64", "float64"} /\ first[j].kind = "numpy.int64"
            THEN NpFloat(first[j].v * 10)
            ELSE first[j]]

\* pd.isna(value)
IsNa(value) == value.kind = "nan"

\* isinstance(value, int): numpy.int64 is not a subclass of Python's int
IsInstanceInt(value) == value.kind \in {"int", "bool"}

\* isinstance(value, float): numpy.float64 is a subclass of Python's float
IsInstanceFloat(value) == value.kind \in {"float", "numpy.float64"}

infer_sqlite_type(value) ==
    IF IsNa(value) THEN "TEXT"
    ELSE IF IsInstanceInt(value) THEN "INTEGER"
    ELSE IF IsInstanceFloat(value) THEN "REAL"
    ELSE "TEXT"

\* col_clean without the strip: col.replace(" ", "_")
col_clean_NoStrip(col) == Replace(col, " ", "_")

\* col.strip().replace(" ", "_")
col_clean(col) == Replace(Strip(col), " ", "_")

\* The list columns built by lines 98-103, one definition per column of the frame.
BuildColumns(frame) ==
    LET sample_row == SampleRow(frame)
    IN  [j \in 1..Len(frame.columns) |->
            [name |-> col_clean(frame.columns[j]),
             type |-> infer_sqlite_type(sample_row[j])]]

-----------------------------------------------------------------------------
(* SQLite: the statements the loader sends *)

\* SELECT name FROM sqlite_master WHERE type='table' AND name=?
table_exists(db, name) == name \in DOMAIN db

\* A drop that matches by prefix (name LIKE 'name%') instead of by name.
DropTable_Like(db, name) ==
    [n \in {m \in DOMAIN db : Len(m) < Len(name) \/ SubSeq(m, 1, Len(name)) # name} |-> db[n]]

\* DROP TABLE IF EXISTS name (no transaction is open: the drop is durable at once)
DropTable(db, name) == [n \in DOMAIN db \ {name} |-> db[n]]

\* Whether SQLite rejects CREATE TABLE name (defs): the table exists, there is no
\* column, or two columns have the same name.
CreateRejected(db, name, defs) ==
    \/ name \in DOMAIN db
    \/ defs = <<>>
    \/ \E i, j \in 1..Len(defs) : i # j /\ defs[i].name = defs[j].name

\* CREATE TABLE name (defs), accepted: a new table with no row
CreateTable(db, name, defs) ==
    [n \in DOMAIN db \cup {name} |->
        IF n = name THEN [columns |-> defs, rows |-> <<>>] ELSE db[n]]

\* An insert that takes the sampled first row for a header and skips it.
AppendRows_SkipSample(db, name, frame) ==
    [db EXCEPT ![name].rows = @ \o Tail(frame.rows)]

\* df.to_sql(name, conn, if_exists="append", index=False): every row of the frame
\* after the rows the table holds, in one transaction that to_sql commits.
AppendRows(db, name, frame) ==
    [db EXCEPT ![name].rows = @ \o frame.rows]

\* The rename without its loop: the first suffix, free or not.
FreeSuffix_NoLoop(db, name, suffix) == suffix

\* The while loop of lines 85-87: the first suffix from `suffix` on whose name is free.
RECURSIVE FreeSuffix(_, _, _)
FreeSuffix(db, name, suffix) ==
    IF table_exists(db, Suffixed(name, suffix))
    THEN FreeSuffix(db, name, suffix + 1)
    ELSE suffix

-----------------------------------------------------------------------------
(* What the user types *)

\* Answers to "Enter table name: ", before run_cli strips them.
RawTableNames == { <<"t">>, <<" ", "t", " ">>, <<"t", "_", "1">> }

\* Answers to "Do you want to [O]verwrite, [R]ename, or [S]kip? ".
RawChoices ==
    { <<"o">>, <<" ", "O">>, <<"r">>, <<"R", " ">>, <<"s">>, <<"S">>,
      <<"x">>, <<"o", "s">>, <<" ">>, <<>> }

-----------------------------------------------------------------------------
(* run_cli *)

Init ==
    /\ pc = "cli"
    /\ store = <<>>
    /\ csv_file = [parses |-> FALSE, frame |-> NoFrame]
    /\ df = NoFrame
    /\ conn = "unbound"
    /\ table_name = <<>>
    /\ original_table_name = <<>>
    /\ choice = Unbound
    /\ columns = <<>>
    /\ outcome = "none"
    /\ logged = FALSE
    /\ e = "none"
    /\ store0 = <<>>

\* The "load" command: run_cli reads the path and the name and calls
\* create_table_from_csv(csv_path, db_path, table_name) with fresh locals.
CliLoad ==
    /\ pc = "cli"
    /\ Cardinality(DOMAIN store) < MaxTables
    /\ \E file \in CsvFiles, raw \in RawTableNames :
        /\ csv_file' = file
        /\ table_name' = Strip(raw)
    /\ pc' = "read_csv"
    /\ df' = NoFrame
    /\ conn' = "unbound"
    /\ original_table_name' = <<>>
    /\ choice' = Unbound
    /\ columns' = <<>>
    /\ outcome' = "none"
    /\ logged' = FALSE
    /\ e' = "none"
    /\ store0' = store
    /\ UNCHANGED store

\* "help", "list" and an unknown command: they print and the loop goes on.
CliOther ==
    /\ pc = "cli"
    /\ UNCHANGED vars

\* "exit"
CliExit ==
    /\ pc = "cli"
    /\ pc' = "exited"
    /\ UNCHANGED <<store, csv_file, df, conn, table_name, original_table_name,
                   choice, columns, outcome, logged, e, store0>>

-----------------------------------------------------------------------------
(* create_table_from_csv, one action per statement that can fail or branch *)

\* An exception raised inside the try block: control goes to the except clause,
\* which binds it to e.
Raise(exception) == pc' = "except" /\ e' = exception

\* line 69: df = pd.read_csv(csv_path)
ReadCsv ==
    /\ pc = "read_csv"
    /\ IF csv_file.parses
       THEN df' = csv_file.frame /\ pc' = "connect" /\ e' = e
       ELSE df' = df /\ Raise("read_csv: ParseError")
    /\ UNCHANGED <<store, csv_file, conn, table_name, original_table_name,
                   choice, columns, outcome, logged, store0>>

\* lines 72-73: conn = sqlite3.connect(db_path); cursor = conn.cursor()
Connect ==
    /\ pc = "connect"
    /\ conn' = "open"
    /\ pc' = "check"
    /\ UNCHANGED <<store, csv_file, df, table_name, original_table_name,
                   choice, columns, outcome, logged, e, store0>>

\* line 72 when the database file cannot be opened: connect raises, conn stays unbound
ConnectError ==
    /\ pc = "connect"
    /\ Raise("connect: OperationalError")
    /\ UNCHANGED <<store, csv_file, df, conn, table_name, original_table_name,
                   choice, columns, outcome, logged, store0>>

\* lines 76-77: original_table_name = table_name; if table_exists(cursor, table_name)
CheckConflict ==
    /\ pc = "check"
    /\ original_table_name' = table_name
    /\ pc' = IF table_exists(store, table_name) THEN "ask" ELSE "build"
    /\ UNCHANGED <<store, csv_file, df, conn, table_name, choice, columns,
                   outcome, logged, e, store0>>

\* line 79: choice = input(...).strip().upper()
AskChoice ==
    /\ pc = "ask"
    /\ \E raw \in RawChoices : choice' = Upper(Strip(raw))
    /\ pc' = "resolve"
    /\ UNCHANGED <<store, csv_file, df, conn, table_name, original_table_name,
                   columns, outcome, logged, e, store0>>

\* A skip that drops the table before it returns.
ResolveSkip_Drops ==
    /\ pc = "resolve"
    /\ choice = <<"S">>
    /\ store' = DropTable(store, original_table_name)
    /\ outcome' = "Skipped"
    /\ pc' = "finally"
    /\ UNCHANGED <<csv_file, df, conn, table_name, original_table_name,
                   choice, columns, logged, e, store0>>

\* lines 81-83: print "Skipping" and return (the finally clause still runs)
ResolveSkip ==
    /\ pc = "resolve"
    /\ choice = <<"S">>
    /\ outcome' = "Skipped"
    /\ pc' = "finally"
    /\ UNCHANGED <<store, csv_file, df, conn, table_name, original_table_name,
                   choice, columns, logged, e, store0>>

\* lines 84-89: the first free name table_name_1, table_name_2, ...
ResolveRename ==
    /\ pc = "resolve"
    /\ choice = <<"R">>
    /\ table_name' = Suffixed(table_name, FreeSuffix(store, table_name, 1))
    /\ pc' = "build"
    /\ UNCHANGED <<store, csv_file, df, conn, original_table_name, choice,
                   columns, outcome, logged, e, store0>>

\* lines 90-92: DROP TABLE IF EXISTS original_table_name
ResolveOverwrite ==
    /\ pc = "resolve"
    /\ choice = <<"O">>
    /\ store' = DropTable(store, original_table_name)
    /\ pc' = "build"
    /\ UNCHANGED <<csv_file, df, conn, table_name, original_table_name, choice,
                   columns, outcome, logged, e, store0>>

\* An else branch that prints and forgets to return: the load goes on.
ResolveInvalid_FallsThrough ==
    /\ pc = "resolve"
    /\ choice \notin {<<"S">>, <<"R">>, <<"O">>}
    /\ pc' = "build"
    /\ UNCHANGED <<store, csv_file, df, conn, table_name, original_table_name,
                   choice, columns, outcome, logged, e, store0>>

\* lines 93-95: print "Invalid choice. Skipping." and return
ResolveInvalid ==
    /\ pc = "resolve"
    /\ choice \notin {<<"S">>, <<"R">>, <<"O">>}
    /\ outcome' = "InvalidChoice"
    /\ pc' = "finally"
    /\ UNCHANGED <<store, csv_file, df, conn, table_name, original_table_name,
                   choice, columns, logged, e, store0>>

\* lines 98-105: sample_row = df.iloc[0] raises IndexError on a frame with no row
BuildCreate ==
    /\ pc = "build"
    /\ IF df.rows = <<>>
       THEN columns' = columns /\ Raise("iloc: IndexError")
       ELSE columns' = BuildColumns(df) /\ pc' = "create" /\ e' = e
    /\ UNCHANGED <<store, csv_file, df, conn, table_name, original_table_name,
                   choice, outcome, logged, store0>>

\* lines 106-107: cursor.execute(create_stmt)
ExecuteCreate ==
    /\ pc = "create"
    /\ IF CreateRejected(store, table_name, columns)
       THEN store' = store /\ Raise("create: rejected")
       ELSE store' = CreateTable(store, table_name, columns) /\ pc' = "insert" /\ e' = e
    /\ UNCHANGED <<csv_file, df, conn, table_name, original_table_name, choice,
                   columns, outcome, logged, store0>>

\* lines 110-113: rename the frame's columns, append its rows, print "Successfully"
InsertData ==
    /\ pc = "insert"
    /\ df' = [df EXCEPT !.columns = [j \in 1..Len(df.columns) |-> col_clean(df.columns[j])]]
    /\ store' = AppendRows(store, table_name, df')
    /\ outcome' = "Loaded"
    /\ pc' = "finally"
    /\ UNCHANGED <<csv_file, conn, table_name, original_table_name, choice,
                   columns, logged, e, store0>>

\* The exception of a statement that fails at the program position `at`.
StoreErrorAt(at) ==
    CASE at = "check" -> "table_exists: store error"
      [] at = "resolve" -> "resolve: store error"
      [] at = "create" -> "create: store error"
      [] OTHER -> "insert: store error"

\* A statement sent over the open connection fails (the database is locked by
\* run_cli's own connection, the file is not a database, the disk is full): the
\* statement changes nothing and raises.
StoreError ==
    /\ \/ pc \in {"check", "create", "insert"}
       \/ pc = "resolve" /\ choice \in {<<"R">>, <<"O">>}
    /\ Raise(StoreErrorAt(pc))
    /\ UNCHANGED <<store, csv_file, df, conn, table_name, original_table_name,
                   choice, columns, outcome, logged, store0>>

\* An except clause after statements that ran inside one transaction: leaving
\* without a commit rolls the drop back.
Except_RollsBack ==
    /\ pc = "except"
    /\ store' = store0
    /\ logged' = TRUE
    /\ outcome' = "Failed"
    /\ pc' = "finally"
    /\ UNCHANGED <<csv_file, df, conn, table_name, original_table_name,
                   choice, columns, e, store0>>

\* lines 115-117: logging.error(...); print "Failed to process"
Except ==
    /\ pc = "except"
    /\ logged' = TRUE
    /\ outcome' = "Failed"
    /\ pc' = "finally"
    /\ UNCHANGED <<store, csv_file, df, conn, table_name, original_table_name,
                   choice, columns, e, store0>>

\* A close at the end of the try block instead of in a finally clause: only the
\* load that succeeds closes its connection.
Finally_ClosesOnSuccess ==
    /\ pc = "finally"
    /\ IF conn = "unbound"
       THEN conn' = conn /\ outcome' = "Raised" /\ pc' = "crashed"
       ELSE /\ conn' = IF outcome = "Loaded" THEN "closed" ELSE conn
            /\ outcome' = outcome
            /\ pc' = "cli"
    /\ UNCHANGED <<store, csv_file, df, table_name, original_table_name, choice,
                   columns, logged, e, store0>>

\* lines 119-120: conn.close().  When conn was never bound the name lookup raises
\* UnboundLocalError out of the finally clause; run_cli calls the loader outside
\* any try (line 152), so the error ends the process.
Finally ==
    /\ pc = "finally"
    /\ IF conn = "unbound"
       THEN conn' = conn /\ outcome' = "Raised" /\ pc' = "crashed"
       ELSE conn' = "closed" /\ outcome' = outcome /\ pc' = "cli"
    /\ UNCHANGED <<store, csv_file, df, table_name, original_table_name, choice,
                   columns, logged, e, store0>>

Next ==
    \/ CliLoad
    \/ CliOther
    \/ CliExit
    \/ ReadCsv
    \/ Connect
    \/ ConnectError
    \/ CheckConflict
    \/ AskChoice
    \/ ResolveSkip
    \/ ResolveRename
    \/ ResolveOverwrite
    \/ ResolveInvalid
    \/ BuildCreate
    \/ ExecuteCreate
    \/ InsertData
    \/ StoreError
    \/ Except
    \/ Finally

Spec == Init /\ [][Next]_vars

-----------------------------------------------------------------------------
(* The properties *)

\* The name the caller asked for: table_name until line 76 copies it.
Requested ==
    IF original_table_name = <<>> THEN table_name ELSE original_table_name

\* The requested name was a table when the call began.
Collision == Requested \in DOMAIN store0

\* The frame read_csv returns for the file of this call.
Frame == csv_file.frame

\* The call has returned to run_cli.
Returned == pc \in {"cli", "exited"} /\ outcome # "none"

\* The exceptions that come from the store refusing a statement or a connection.
StoreErrors ==
    {"connect: OperationalError", "table_exists: store error",
     "resolve: store error", "create: store error", "insert: store error"}

\* The identifier a header becomes: surrounding spaces stripped, spaces to underscores.
NormalizedName(col) == Replace(Strip(col), " ", "_")

DistinctNormalizedNames(frame) ==
    \A i, j \in 1..Len(frame.columns) :
        i # j => NormalizedName(frame.columns[i]) # NormalizedName(frame.columns[j])

T == <<"t">>

\* C1: a load whose collision is resolved with Skip changes nothing in the store
\* (table names, schemas and rows are those of the start of the call) and ends
\* Skipped, with nothing logged.
SkipChangesNothing ==
    choice = <<"S">> =>
        /\ Collision
        /\ store = store0
        /\ pc # "resolve" => (outcome = "Skipped" /\ ~logged /\ e = "none")

SkipWitness ==
    /\ pc = "cli"
    /\ outcome = "Skipped"
    /\ csv_file.parses
    /\ Frame.rows # <<>>
    /\ Requested \in DOMAIN store
    /\ store[Requested].rows # <<>>

\* C2: after a load of dataset D into an existing table T resolved with Overwrite
\* (the load that ends Loaded), T holds exactly the rows of D, in order, and as
\* many columns as D, whatever T held before.
OverwriteReflectsNewDataset ==
    (choice = <<"O">> /\ outcome = "Loaded") =>
        /\ table_name = Requested
        /\ Requested \in DOMAIN store
        /\ store[Requested].rows = Frame.rows
        /\ Len(store[Requested].rows) = Len(Frame.rows)
        /\ Len(store[Requested].columns) = Len(Frame.columns)

OverwriteWitness ==
    /\ pc = "cli"
    /\ choice = <<"O">>
    /\ outcome = "Loaded"
    /\ Len(store0[Requested].rows) > Len(store[Requested].rows)
    /\ Len(store0[Requested].columns) # Len(store[Requested].columns)

\* C3: with Rename the load proceeds under T_k for the smallest k >= 1 such that
\* T_k is not a table, the tables T, T_1, ..., T_(k-1) stay as they were, and
\* nothing is added under another name.
RenamePicksFirstFreeSuffix ==
    choice = <<"R">> =>
        \/ /\ table_name = Requested
           /\ store = store0
           /\ pc \in {"resolve", "except", "finally", "cli", "exited"}
           /\ pc # "resolve" => e = "resolve: store error"
        \/ \E k \in 1..Cardinality(DOMAIN store0) :
            /\ table_name = Suffixed(Requested, k)
            /\ table_name \notin DOMAIN store0
            /\ \A j \in 1..(k - 1) :
                /\ Suffixed(Requested, j) \in DOMAIN store0
                /\ Suffixed(Requested, j) \in DOMAIN store
                /\ store[Suffixed(Requested, j)] = store0[Suffixed(Requested, j)]
            /\ Requested \in DOMAIN store
            /\ store[Requested] = store0[Requested]
            /\ DOMAIN store \ DOMAIN store0 \subseteq {table_name}
            /\ outcome = "Loaded" => table_name \in DOMAIN store

RenameWitness ==
    /\ pc = "cli"
    /\ choice = <<"R">>
    /\ outcome = "Loaded"
    /\ Requested = T
    /\ {T, Suffixed(T, 1), Suffixed(T, 2)} \subseteq DOMAIN store0
    /\ table_name = <<"t", "_", "3">>
    /\ table_name \in DOMAIN store

\* C4: every failure of a load ends Failed and logged, nothing is raised past
\* the caller, and run_cli goes on to its next prompt.
FailuresAreContained ==
    /\ pc # "crashed"
    /\ outcome # "Raised"
    /\ (e # "none" /\ pc \notin {"except", "finally"}) =>
            (outcome = "Failed" /\ logged /\ pc \in {"cli", "exited"})

\* C5 as stated: every non-empty dataset loaded under a name that is not a table
\* ends Loaded with the new table (the store accepting what it can accept).
NewNameAlwaysLoads ==
    (Returned /\ ~Collision /\ csv_file.parses /\ Frame.rows # <<>>
        /\ e \notin StoreErrors) =>
        /\ outcome = "Loaded"
        /\ Requested \in DOMAIN store

\* C5, amended: for a non-empty dataset whose normalized column names are distinct
\* and a requested name that is not a table, the policy is never consulted and,
\* when the store accepts the statements, the load ends Loaded with exactly one
\* new table under the requested name: one column per column of the dataset, in
\* order, under the normalized names, and the rows of the dataset in order.
NewNameLoadsDistinctColumns ==
    ~Collision =>
        /\ choice = Unbound
        /\ pc # "ask"
        /\ (Returned /\ csv_file.parses /\ Frame.rows # <<>>
                /\ DistinctNormalizedNames(Frame) /\ e \notin StoreErrors) =>
            /\ outcome = "Loaded"
            /\ table_name = Requested
            /\ DOMAIN store = DOMAIN store0 \cup {Requested}
            /\ \A n \in DOMAIN store0 : store[n] = store0[n]
            /\ Len(store[Requested].columns) = Len(Frame.columns)
            /\ \A j \in 1..Len(Frame.columns) :
                store[Requested].columns[j].name = NormalizedName(Frame.columns[j])
            /\ store[Requested].rows = Frame.rows

NewNameWitness ==
    /\ pc = "cli"
    /\ outcome = "Loaded"
    /\ ~Collision
    /\ Frame = Students
    /\ store0 # <<>>
    /\ Len(store[Requested].rows) = 2

\* The type the claim gives a column from the first row's cell.
ClaimedType(cell) ==
    IF cell.kind = "nan" THEN "TEXT"
    ELSE IF cell.kind \in {"int", "numpy.int64"} THEN "INTEGER"
    ELSE IF cell.kind \in {"float", "numpy.float64"} THEN "REAL"
    ELSE "TEXT"

\* C6: the declared type of every created column is decided by the first row's
\* cell alone: missing gives TEXT, an integer INTEGER, a non-integral number
\* REAL, anything else TEXT.
TypeFromFirstCell ==
    pc \in {"create", "insert"} =>
        \A j \in 1..Len(columns) : columns[j].type = ClaimedType(Frame.rows[1][j])

\* C7: when the name exists and the answer is none of O, R, S after strip and
\* upper (the empty answer included), the load ends InvalidChoice and the store
\* is what it was: nothing dropped, created or modified, nothing logged.
InvalidChoiceChangesNothing ==
    choice \notin {Unbound, <<"S">>, <<"R">>, <<"O">>} =>
        /\ Collision
        /\ choice \in {<<>>, <<"X">>, <<"O", "S">>}
        /\ store = store0
        /\ pc \in {"resolve", "finally", "cli", "exited"}
        /\ pc # "resolve" => (outcome = "InvalidChoice" /\ ~logged /\ e = "none")

InvalidChoiceWitness ==
    /\ pc = "cli"
    /\ outcome = "InvalidChoice"
    /\ choice = <<>>
    /\ store[Requested].rows # <<>>

\* C8: once a call has returned, by any route, the connection it opened is
\* closed; a call that opened none leaves none open.
ConnectionReleased ==
    pc \in {"cli", "exited", "crashed"} => conn # "open"

ConnectionWitness ==
    /\ pc = "cli"
    /\ outcome = "Failed"
    /\ conn = "closed"
    /\ e = "create: rejected"

\* C9: under Overwrite the old table is gone before the schema is built and
\* before CREATE TABLE runs, and a later failure does not bring it back: the
\* outcome is Failed and the requested name is absent, or bound to the new table
\* with no row.
OverwriteDropIsFinal ==
    choice = <<"O">> =>
        /\ pc \in {"build", "create"} => Requested \notin DOMAIN store
        /\ (pc \in {"except", "finally", "cli", "exited"}
                /\ e \notin {"none", "resolve: store error"}) =>
            /\ pc # "except" => outcome = "Failed"
            /\ \/ Requested \notin DOMAIN store
               \/ /\ e = "insert: store error"
                  /\ store[Requested].rows = <<>>
                  /\ Len(store[Requested].columns) = Len(Frame.columns)

OverwriteFailureWitness ==
    /\ pc = "cli"
    /\ choice = <<"O">>
    /\ outcome = "Failed"
    /\ e = "iloc: IndexError"
    /\ store0[Requested].rows # <<>>
    /\ Requested \notin DOMAIN store

\* C10: at every point of every load, a table that existed when the call began
\* is unchanged unless it has the requested name and the collision was resolved
\* with Overwrite, and the only name the load adds is its final table name.
LoadFrameInvariant ==
    /\ \A n \in DOMAIN store0 :
        (n # Requested \/ choice # <<"O">>) =>
            (n \in DOMAIN store /\ store[n] = store0[n])
    /\ DOMAIN store \ DOMAIN store0 \subseteq {table_name}

LoadFrameWitness ==
    /\ pc = "cli"
    /\ choice = <<"O">>
    /\ outcome = "Failed"
    /\ \E n \in DOMAIN store0 :
        n # Requested /\ store0[n].rows # <<>> /\ Len(n) > Len(Requested)

====
